---- MODULE Spec2Model ----
(***************************************************************************)
(* The simulated beacon of eth/catalyst/simulated_beacon.go: the           *)
(* withdrawal queue, the finalized-block rule, sealBlock and its callers   *)
(* (the periodic loop, Commit, AdjustTime), and Fork.                      *)
(*                                                                         *)
(* sealBlock holds no lock and talks to the execution engine, the chain    *)
(* and the transaction pool in several calls.  Each of those calls is one  *)
(* step of the model, so that Fork (a chain rewind), withdrawal            *)
(* submission, pool changes and Stop can run between two of them.  The     *)
(* driver's own calls are issued one at a time: by the loop when period    *)
(* is not 0, by Commit and AdjustTime when it is 0 (Start, lines 150-159). *)
(*                                                                         *)
(* The execution engine and the transaction pool are not part of the file: *)
(* they answer as their interface allows, each call either failing or      *)
(* doing what the call is for, and the pool holding any number of pending  *)
(* transactions when it is asked.                                          *)
(***************************************************************************)
EXTENDS Integers, Sequences, FiniteSets, TLC

VARIABLES
    \* the chain held by the execution engine
    base,                \* height of the chain the beacon was constructed on
    built,               \* the blocks the engine has imported since, in order
    canonical,           \* canonical[n+1] is the hash of the canonical block n
    \* SimulatedBeacon
    curForkchoiceState,  \* [head, safe, finalized]
    lastBlockTime,
    period,
    shutdownCh,          \* TRUE once closed
    \* withdrawalQueue
    pending,             \* w.pending
    addedAll,            \* every withdrawal handed to add, in order
    poppedAll,           \* every batch pop returned, concatenated in order
    lastPop,             \* the last pop: its count, the queue before it, what
                         \* it returned and the queue it left
    \* the loop goroutine
    loop,                \* "new", "manual", "select", "sealing", "exited"
    timer,               \* "stopped", "armed", "fired"
    \* the sealBlock call in flight
    pc,                  \* position in sealBlock, "idle" when none is running
    caller,              \* "loop", "Commit", "AdjustTime" or "none"
    timestamp,           \* sealBlock's timestamp after lines 170-172
    header,              \* the header read at line 178
    payload,             \* envelope.ExecutionPayload, with the bundle's state
    finalizedHash,       \* the local of line 223
    result,              \* what the call returned
    fcResponse,          \* the answer to the forkchoice update of line 197
    calls,               \* the pool and engine calls the call has made, in order
    \* what is recorded about the calls
    fcsAtCall,           \* curForkchoiceState when the call in flight began
    resyncWrites,        \* writes of line 180 in the call in flight
    commitWrites,        \* writes of line 263 in the call in flight
    raced,               \* Fork moved the head between a read of the chain by
                         \* the call in flight and the lookup that follows it
    sealedTimes,         \* timestamps of the blocks sealed so far, in order
    commitHash,          \* what the last Commit returned
    apiCall,             \* the Fork or AdjustTime call just made, when recorded
    \* the finalized-block rule applied to a number
    finK, finStage, finOut, finTwice

vars == <<base, built, canonical, curForkchoiceState, lastBlockTime,
          period, shutdownCh, pending, addedAll, poppedAll, lastPop, loop, timer,
          pc, caller, timestamp, header, payload, finalizedHash, result,
          fcResponse, calls,
          fcsAtCall, resyncWrites, commitWrites, raced, sealedTimes,
          commitHash, apiCall, finK, finStage, finOut, finTwice>>

chainVars == <<base, built, canonical>>
queueVars == <<pending, addedAll, poppedAll, lastPop>>
loopVars  == <<period, shutdownCh, loop, timer>>
callVars  == <<pc, caller, timestamp, header, payload, finalizedHash, result,
               fcResponse, calls, fcsAtCall, resyncWrites, commitWrites, raced>>
finVars   == <<finK, finStage, finOut, finTwice>>

----------------------------------------------------------------------------
\* Program constants.

devEpochLength == 32

PopBatch == 10

----------------------------------------------------------------------------
\* Bounds of the model.

\* Blocks the engine imports in one behaviour.
MaxBuilt == 2

\* Withdrawals submitted in one behaviour.
MaxAdds == 3

\* Pending transactions the pool holds at most when it is asked.
MaxPoolPending == 1

\* Largest block number the finalized-block rule is applied to.
MaxNumber == 130

\* Seconds past the initial head's time AdjustTime may ask for.
MaxAhead == 2

\* First timestamp at which the chain configuration has Cancun active.
CancunTime == 46

\* Heights of the chain the beacon is constructed on.
InitHeights == {31, 44, 63}

\* Numbers of the blocks of that chain Fork is called with.
ForkNumbers == {31}

\* Wall clock of a loop firing or a Commit, relative to lastBlockTime.
ClockSkews == {-1, 0, 1}

\* AdjustTime's adjustment in seconds.
Adjustments == {-1, 0, 1}

\* AdjustTime's adjustment in seconds where it moves the clock ahead.
AheadAdjustments == {-1, 2}

\* Counts pop is called with in the queue's own specification.
PopCounts == {0, 1, 2, PopBatch}

----------------------------------------------------------------------------
\* Hashes and blocks.  The block number n of the chain the beacon is
\* constructed on has hash n and time n; the k-th block the engine imports
\* has hash MaxInitHeight + k.  A rewind keeps the blocks and moves only the
\* canonical chain.

MaxInitHeight == CHOOSE h \in InitHeights : \A g \in InitHeights : g <= h

NewHash(k) == MaxInitHeight + k

\* A hash no block has.
UnknownHash == NewHash(MaxBuilt + 2)

IsInitial(h) == h \in 0..base

BuiltIndex(h) == h - MaxInitHeight

\* BlockChain().GetBlockByHash(h) != nil
HasBlock(h) == IsInitial(h) \/ BuiltIndex(h) \in 1..Len(built)

BlockNumber(h) == IF IsInitial(h) THEN h ELSE built[BuiltIndex(h)].number

BlockTime(h) == IF IsInitial(h) THEN h ELSE built[BuiltIndex(h)].time

BlockParent(h) == IF IsInitial(h) THEN h - 1 ELSE built[BuiltIndex(h)].parent

\* The chain from genesis to block h: what SetCanonical(h) makes canonical.
RECURSIVE Ancestry(_)
Ancestry(h) ==
    IF IsInitial(h) THEN [i \in 1..(h + 1) |-> i - 1]
    ELSE Append(Ancestry(BlockParent(h)), h)

\* BlockChain().CurrentBlock()
CurrentBlock ==
    LET h == canonical[Len(canonical)]
    IN [hash |-> h, number |-> BlockNumber(h), time |-> BlockTime(h)]

\* BlockChain().GetBlockByNumber(n): a set holding the block's hash, empty for nil.
GetBlockByNumber(n) ==
    IF n + 1 <= Len(canonical) THEN {canonical[n + 1]} ELSE {}

NoHeader == [hash |-> UnknownHash, number |-> 0, time |-> 0]

NoPayload == [hash |-> UnknownHash, number |-> 0, time |-> 0, parent |-> UnknownHash,
              badCommitment |-> FALSE]

----------------------------------------------------------------------------
\* withdrawalQueue

\* No Fork or AdjustTime call is recorded.
NoCall == [op |-> "none", dirty |-> FALSE, err |-> "none", adjustment |-> 0]

\* A step that is no recorded Fork or AdjustTime call.
NoApi == apiCall' = NoCall

\* add with the new withdrawal put in front.
QueueAddFront(q, withdrawal) == <<withdrawal>> \o q

\* add, line 58
QueueAdd(q, withdrawal) == Append(q, withdrawal)

\* pop, line 70
PopCount(count, len) == IF count < len THEN count ELSE len

\* pop without line 72: the queue is not advanced.
QueuePopKeeps(q, count) ==
    [popped |-> SubSeq(q, 1, IF count < Len(q) THEN count ELSE Len(q)), rest |-> q]

\* pop, lines 70-74: what is returned and what stays
QueuePop(q, count) ==
    LET c == PopCount(count, Len(q))
    IN [popped |-> SubSeq(q, 1, c), rest |-> SubSeq(q, c + 1, Len(q))]

\* lastPop before any pop.
NoPop == [n |-> 0 - 1, before |-> <<>>, out |-> <<>>, rest |-> <<>>]

\* The effect of one pop(count) call on the queue and on its record.
DoPop(count) ==
    LET r == QueuePop(pending, count)
    IN /\ pending' = r.rest
       /\ poppedAll' = poppedAll \o r.popped
       /\ lastPop' = [n |-> count, before |-> pending, out |-> r.popped,
                      rest |-> r.rest]
       /\ UNCHANGED addedAll

\* add, lines 56-63, called with the next withdrawal, which its index names.
Add ==
    /\ Len(addedAll) < MaxAdds
    /\ LET withdrawal == Len(addedAll) + 1
       IN /\ pending' = QueueAdd(pending, withdrawal)
          /\ addedAll' = Append(addedAll, withdrawal)
    /\ UNCHANGED <<poppedAll, lastPop>>
    /\ UNCHANGED <<chainVars, curForkchoiceState, lastBlockTime, loopVars, callVars,
                   sealedTimes, commitHash, finVars>>
    /\ NoApi

\* pop, lines 66-75, called with a count.
Pop ==
    /\ \E count \in PopCounts : DoPop(count)
    /\ UNCHANGED <<chainVars, curForkchoiceState, lastBlockTime, loopVars, callVars,
                   sealedTimes, commitHash, finVars>>
    /\ NoApi

----------------------------------------------------------------------------
\* The finalized-block rule.

\* finalizedBlockHash without the case of line 294.
FinalizedNumberNoBoundary(number) ==
    ((number - 1) \div devEpochLength) * devEpochLength

\* finalizedBlockHash, lines 293-298
FinalizedNumber(number) ==
    IF number % devEpochLength = 0 THEN number
    ELSE ((number - 1) \div devEpochLength) * devEpochLength

\* finalizedBlockHash, lines 292-304: a set holding the hash, empty for nil
FinalizedBlockHash(number) == GetBlockByNumber(FinalizedNumber(number))

\* setCurrentState with the finalized hash as the safe one.
SetCurrentStateSafeFinalized(headHash, finHash) ==
    [head |-> headHash, safe |-> finHash, finalized |-> finHash]

\* setCurrentState, lines 307-313
SetCurrentState(headHash, finHash) ==
    [head |-> headHash, safe |-> headHash, finalized |-> finHash]

\* payloadVersion, lines 101-109, for a chain configuration that is past the
\* merge and has Cancun from CancunTime on
PayloadVersion(time) == IF time >= CancunTime THEN 3 ELSE 2

\* engine.STATUS_SYNCING: status SYNCING, no payload ID
STATUS_SYNCING == [status |-> "SYNCING", payloadID |-> {}]

\* Status VALID without a payload ID.
ValidWithoutID == [status |-> "VALID", payloadID |-> {}]

\* Status VALID with the ID of the payload the engine has started.
ValidWithID == [status |-> "VALID", payloadID |-> {"id"}]

\* No answer yet.
NoResponse == [status |-> "none", payloadID |-> {}]

\* Line 207 with the test left out.
IsSyncingNever(resp) == FALSE

\* sealBlock, line 207
IsSyncing(resp) == resp = STATUS_SYNCING

\* Line 213 with the test left out.
PayloadAlreadyKnownNever(resp) == FALSE

\* sealBlock, line 213
PayloadAlreadyKnown(resp) == resp.status = "VALID" /\ resp.payloadID = {}

\* Line 178 with the guard always taken.
HeadMovedAlways(cached, live) == TRUE

\* Line 178 with the guard never taken.
HeadMovedNever(cached, live) == FALSE

\* sealBlock, line 178: the cached head is not the live one
HeadMoved(cached, live) == cached # live

\* Line 170 with < for <=.
NormalizeTimestampStrict(requested, last) ==
    IF requested < last THEN last + 1 ELSE requested

\* sealBlock, lines 170-172
NormalizeTimestamp(requested, last) ==
    IF requested <= last THEN last + 1 ELSE requested

----------------------------------------------------------------------------
\* Construction.

\* NewSimulatedBeacon, lines 112-141, on a chain of height base
NewSimulatedBeacon(p) ==
    /\ base \in InitHeights
    /\ built = <<>>
    /\ canonical = [i \in 1..(base + 1) |-> i - 1]
    /\ curForkchoiceState = [head |-> base, safe |-> base, finalized |-> base]
    /\ lastBlockTime = base
    /\ period = p
    /\ shutdownCh = FALSE
    /\ pending = <<>>
    /\ addedAll = <<>>
    /\ poppedAll = <<>>
    /\ lastPop = NoPop
    /\ loop = "new"
    /\ timer = "stopped"
    /\ pc = "idle"
    /\ caller = "none"
    /\ timestamp = 0
    /\ header = NoHeader
    /\ payload = NoPayload
    /\ finalizedHash = UnknownHash
    /\ result = "none"
    /\ fcResponse = NoResponse
    /\ calls = <<>>
    /\ fcsAtCall = curForkchoiceState
    /\ resyncWrites = 0
    /\ commitWrites = 0
    /\ raced = FALSE
    /\ sealedTimes = <<>>
    /\ commitHash = UnknownHash
    /\ apiCall = NoCall

\* No number has been handed to the finalized-block rule.
FinIdle ==
    /\ finK = 0
    /\ finStage = 0
    /\ finOut = 0
    /\ finTwice = 0

\* A nil dereference ends the process.
Alive == pc # "crashed"

\* Start, lines 150-159
Start ==
    /\ Alive
    /\ loop = "new"
    /\ IF period = 0
       THEN loop' = "manual" /\ timer' = timer
       ELSE loop' = "select" /\ timer' = "armed"     \* loop, line 275
    /\ UNCHANGED <<period, shutdownCh>>
    /\ UNCHANGED <<chainVars, curForkchoiceState, lastBlockTime, queueVars, callVars,
                   sealedTimes, commitHash, finVars>>
    /\ NoApi

\* Stop, lines 162-165
Stop ==
    /\ Alive
    /\ loop # "new"
    /\ ~shutdownCh
    /\ shutdownCh' = TRUE
    /\ UNCHANGED <<period, loop, timer>>
    /\ UNCHANGED <<chainVars, curForkchoiceState, lastBlockTime, queueVars, callVars,
                   sealedTimes, commitHash, finVars>>
    /\ NoApi

----------------------------------------------------------------------------
\* sealBlock, lines 169-271.

\* The call begins: lines 170-175.
BeginSeal(who, requested) ==
    /\ requested >= 0
    /\ pc' = "readHead"
    /\ caller' = who
    /\ timestamp' = NormalizeTimestamp(requested, lastBlockTime)
    /\ header' = NoHeader
    /\ payload' = NoPayload
    /\ finalizedHash' = UnknownHash
    /\ result' = "running"
    /\ fcResponse' = NoResponse
    /\ calls' = <<>>
    /\ fcsAtCall' = curForkchoiceState
    /\ resyncWrites' = 0
    /\ commitWrites' = 0
    /\ raced' = FALSE
    /\ commitHash' = UnknownHash

\* The call returns res; its locals other than the payload are gone.
SealReturn(res) ==
    /\ pc' = "return"
    /\ result' = res
    /\ timestamp' = 0
    /\ header' = NoHeader
    /\ finalizedHash' = UnknownHash

\* Line 178: the live head is read and compared with the cached one.
ReadHead ==
    /\ pc = "readHead"
    /\ header' = CurrentBlock
    /\ pc' = IF HeadMoved(curForkchoiceState.head, CurrentBlock.hash)
             THEN "resync" ELSE "propose"
    /\ UNCHANGED <<caller, timestamp, payload, finalizedHash, result, fcResponse,
                   calls, fcsAtCall, resyncWrites, commitWrites, raced>>
    /\ UNCHANGED <<chainVars, curForkchoiceState, lastBlockTime, queueVars, loopVars,
                   sealedTimes, commitHash, finVars>>
    /\ NoApi

\* Lines 179-180: the pointer finalizedBlockHash returns is dereferenced
\* unchecked, so nil ends the process.
Resync ==
    /\ pc = "resync"
    /\ LET fh == FinalizedBlockHash(header.number)
       IN IF fh = {}
          THEN /\ pc' = "crashed"
               /\ result' = "panic"
               /\ UNCHANGED <<curForkchoiceState, resyncWrites>>
          ELSE /\ curForkchoiceState' =
                      SetCurrentState(header.hash, CHOOSE h \in fh : TRUE)
               /\ resyncWrites' = resyncWrites + 1
               /\ pc' = "propose"
               /\ UNCHANGED result
    /\ UNCHANGED <<caller, timestamp, header, payload, finalizedHash, fcResponse,
                   calls, fcsAtCall, commitWrites, raced>>
    /\ UNCHANGED <<chainVars, lastBlockTime, queueVars, loopVars,
                   sealedTimes, commitHash, finVars>>
    /\ NoApi

\* A nil pointer is dereferenced inside sealBlock.
Panic ==
    /\ pc' = "crashed"
    /\ result' = "panic"
    /\ UNCHANGED <<timestamp, header, finalizedHash>>

\* The test of an error with no return.
ReturnsErrorNever(err) == FALSE

\* Lines 189, 204, 218, 260 and 266: if err != nil, return it.
ReturnsError(err) == err # "nil"

\* A call and the error it returned, as calls records it.
Called(name, err) == [call |-> name, err |-> err]

\* Lines 189-215 when the engine builds nothing: TxPool().Sync() fails; or
\* the forkchoice update fails, answers SYNCING, or answers VALID without a
\* payload ID.  An answer without a payload ID that passes the tests of
\* lines 207 and 213 is dereferenced at line 217.
ProposeNoBuild ==
    /\ pc = "propose"
    /\ \E syncErr \in {"nil", "failed to sync txpool"} :
          IF ReturnsError(syncErr)
          THEN /\ SealReturn(syncErr)
               /\ calls' = Append(calls, Called("TxPool.Sync", syncErr))
               /\ UNCHANGED fcResponse
          ELSE \E resp \in {NoResponse, STATUS_SYNCING, ValidWithoutID} :
                  LET err == IF resp = NoResponse THEN "forkchoiceUpdated error"
                             ELSE "nil"
                  IN /\ calls' = calls \o
                           <<Called("TxPool.Sync", syncErr),
                             Called("forkchoiceUpdated with attributes", err)>>
                     /\ fcResponse' = resp
                     /\ IF ReturnsError(err) THEN SealReturn(err)
                        ELSE IF IsSyncing(resp)
                        THEN SealReturn("chain rewind prevented invocation of payload creation")
                        ELSE IF PayloadAlreadyKnown(resp)
                        THEN SealReturn("nil, payload already known")
                        ELSE Panic
    /\ UNCHANGED <<caller, payload, fcsAtCall, resyncWrites, commitWrites, raced>>
    /\ UNCHANGED <<chainVars, curForkchoiceState, lastBlockTime, queueVars, loopVars,
                   sealedTimes, commitHash, finVars>>
    /\ NoApi

\* The payload the engine builds on the head of a forkchoice state, at a
\* timestamp; a payload that is never imported leaves nothing behind.
BuildOn(state, time) ==
    [hash |-> NewHash(Len(built) + 1), number |-> BlockNumber(state.head) + 1,
     time |-> time, parent |-> state.head]

\* Lines 189-215 when TxPool().Sync() succeeds and the engine answers VALID
\* with a payload ID: it has made the head of the forkchoice state canonical
\* and started a payload on it.
ProposeBuild ==
    /\ pc = "propose"
    /\ Len(built) < MaxBuilt
    /\ ~ReturnsError("nil")
    /\ ~IsSyncing(ValidWithID)
    /\ fcResponse' = ValidWithID
    /\ calls' = calls \o <<Called("TxPool.Sync", "nil"),
                           Called("forkchoiceUpdated with attributes", "nil")>>
    /\ canonical' = Ancestry(curForkchoiceState.head)
    /\ IF PayloadAlreadyKnown(ValidWithID)
       THEN SealReturn("nil, payload already known")
       ELSE /\ pc' = "getPayload"
            /\ header' = NoHeader
            /\ UNCHANGED <<timestamp, finalizedHash, result>>
    /\ UNCHANGED <<base, built>>
    /\ UNCHANGED <<caller, payload, fcsAtCall, resyncWrites, commitWrites, raced>>
    /\ UNCHANGED <<curForkchoiceState, lastBlockTime, queueVars, loopVars,
                   sealedTimes, commitHash, finVars>>
    /\ NoApi

\* Lines 217-221: getPayload fails, or returns the envelope of the payload
\* built for this call; the bundle's commitments are the engine's.  Line 221
\* dereferences the envelope.
GetPayload ==
    /\ pc = "getPayload"
    /\ \E err \in {"nil", "getPayload error"} :
          /\ calls' = Append(calls, Called("getPayload", err))
          /\ IF ReturnsError(err) THEN SealReturn(err) /\ UNCHANGED payload
             ELSE IF err # "nil" THEN Panic /\ UNCHANGED payload
             ELSE /\ UNCHANGED <<timestamp, header, finalizedHash>>
                  /\ \E bad \in IF PayloadVersion(timestamp) > 2 THEN BOOLEAN
                                ELSE {FALSE} :
                        LET b == BuildOn(curForkchoiceState, timestamp)
                        IN payload' = [hash |-> b.hash, number |-> b.number,
                                       time |-> b.time, parent |-> b.parent,
                                       badCommitment |-> bad]
                  /\ pc' = "finality"
                  /\ UNCHANGED result
    /\ UNCHANGED <<caller, fcResponse, fcsAtCall, resyncWrites, commitWrites, raced>>
    /\ UNCHANGED <<chainVars, curForkchoiceState, lastBlockTime, queueVars, loopVars,
                   sealedTimes, commitHash, finVars>>
    /\ NoApi

\* Lines 223-232 with the payload always its own finalized block.
PayloadFinalizedSelf(p) == {p.hash}

\* Lines 223-232: the finalized hash of the new payload; empty for the error.
PayloadFinalized(p) ==
    IF p.number % devEpochLength = 0 THEN {p.hash}
    ELSE FinalizedBlockHash(p.number)

\* Lines 223-256: the finalized hash, then the blob hashes of the bundle.
Finality ==
    /\ pc = "finality"
    /\ LET fh == PayloadFinalized(payload)
       IN IF fh = {}
          THEN SealReturn("chain rewind interrupted calculation of finalized block hash")
          ELSE IF PayloadVersion(timestamp) > 2 /\ payload.badCommitment
          THEN SealReturn("invalid commitment length")
          ELSE /\ finalizedHash' = CHOOSE h \in fh : TRUE
               /\ pc' = "newPayload"
               /\ UNCHANGED <<timestamp, header, result>>
    /\ UNCHANGED <<caller, payload, fcResponse, calls, fcsAtCall, resyncWrites,
                   commitWrites, raced>>
    /\ UNCHANGED <<chainVars, curForkchoiceState, lastBlockTime, queueVars, loopVars,
                   sealedTimes, commitHash, finVars>>
    /\ NoApi

\* Lines 258-263: newPayload fails; or it imports the block, and line 263
\* sets the forkchoice state.
NewPayload ==
    /\ pc = "newPayload"
    /\ \E err \in {"nil", "newPayload error"} :
          /\ calls' = Append(calls, Called("newPayload", err))
          /\ built' = IF err = "nil"
                      THEN Append(built, [number |-> payload.number,
                                          time |-> payload.time,
                                          parent |-> payload.parent])
                      ELSE built
          /\ IF ReturnsError(err)
             THEN /\ SealReturn(err)
                  /\ UNCHANGED <<curForkchoiceState, commitWrites>>
             ELSE /\ curForkchoiceState' = SetCurrentState(payload.hash, finalizedHash)
                  /\ commitWrites' = commitWrites + 1
                  /\ pc' = "canonicalize"
                  /\ UNCHANGED <<timestamp, header, finalizedHash, result>>
    /\ UNCHANGED <<base, canonical>>
    /\ UNCHANGED <<caller, payload, fcResponse, fcsAtCall, resyncWrites, raced>>
    /\ UNCHANGED <<lastBlockTime, queueVars, loopVars,
                   sealedTimes, commitHash, finVars>>
    /\ NoApi

\* Lines 265-270: the forkchoice update without attributes fails; or it makes
\* the head of the forkchoice state canonical, and line 269 sets lastBlockTime.
Canonicalize ==
    /\ pc = "canonicalize"
    /\ \E err \in {"nil", "forkchoiceUpdated error"} :
          /\ calls' = Append(calls, Called("forkchoiceUpdated", err))
          /\ canonical' = IF err = "nil" /\ HasBlock(curForkchoiceState.head)
                          THEN Ancestry(curForkchoiceState.head)
                          ELSE canonical
          /\ IF ReturnsError(err)
             THEN /\ SealReturn(err)
                  /\ UNCHANGED <<lastBlockTime, sealedTimes>>
             ELSE /\ lastBlockTime' = payload.time
                  /\ sealedTimes' = Append(sealedTimes, payload.time)
                  /\ SealReturn("nil")
    /\ UNCHANGED <<base, built>>
    /\ UNCHANGED <<caller, payload, fcResponse, fcsAtCall, resyncWrites, commitWrites,
                   raced>>
    /\ UNCHANGED <<curForkchoiceState, queueVars, loopVars, commitHash, finVars>>
    /\ NoApi

\* sealBlock returned no error.
Succeeded(res) == res \in {"nil", "nil, payload already known"}

\* sealBlock returned an error.
Failed(res) == res \notin {"nil", "nil, payload already known", "running", "none", "panic"}

----------------------------------------------------------------------------
\* The callers of sealBlock.

\* Commit, lines 317-318: pop, then the call with the wall clock.
Commit ==
    /\ Alive
    /\ pc = "idle"
    /\ loop = "manual"
    /\ DoPop(PopBatch)
    /\ \E skew \in ClockSkews : BeginSeal("Commit", lastBlockTime + skew)
    /\ UNCHANGED <<chainVars, curForkchoiceState, lastBlockTime, loopVars,
                   sealedTimes, finVars>>
    /\ NoApi

\* Lines 333 and 347 with the test left out.
PoolDirtyNever(poolPending) == FALSE

\* Fork, line 333, and AdjustTime, line 347
PoolDirty(poolPending) == poolPending # 0

\* Line 355 with the adjustment added to lastBlockTime.
AdjustedTimeOfLast(parentTime, adjustment) == lastBlockTime + adjustment

\* AdjustTime, line 355, for an adjustment in seconds
AdjustedTime(parentTime, adjustment) == parentTime + adjustment

\* AdjustTime, lines 346-355, with an adjustment of adjustments: refused on
\* a pool with pending transactions, else pop, then the call with the
\* head's time plus the adjustment.  The call is recorded when observed.
AdjustTimeCall(adjustments, observed) ==
    /\ Alive
    /\ pc = "idle"
    /\ loop = "manual"
    /\ \E poolPending \in 0..MaxPoolPending :
          IF PoolDirty(poolPending)
          THEN /\ UNCHANGED <<queueVars, callVars, commitHash>>
               /\ apiCall' = IF observed
                             THEN [op |-> "AdjustTime", dirty |-> poolPending >= 1,
                                   err |-> "could not adjust time on non-empty block",
                                   adjustment |-> 0]
                             ELSE NoCall
          ELSE /\ DoPop(PopBatch)
               /\ \E adjustment \in adjustments :
                     /\ AdjustedTime(CurrentBlock.time, adjustment)
                           <= BlockTime(base) + MaxAhead
                     /\ BeginSeal("AdjustTime",
                                  AdjustedTime(CurrentBlock.time, adjustment))
                     /\ apiCall' = IF observed
                                   THEN [op |-> "AdjustTime",
                                         dirty |-> poolPending >= 1,
                                         err |-> "sealBlock's",
                                         adjustment |-> adjustment]
                                   ELSE NoCall
    /\ UNCHANGED <<chainVars, curForkchoiceState, lastBlockTime, loopVars,
                   sealedTimes, finVars>>

AdjustTime == AdjustTimeCall(Adjustments, FALSE)

AdjustTimeObserved == AdjustTimeCall(Adjustments, TRUE)

AdjustTimeAhead == AdjustTimeCall(AheadAdjustments, TRUE)

\* loop, line 275 and timer.Reset: the timer runs out.
TimerExpire ==
    /\ Alive
    /\ timer = "armed"
    /\ timer' = "fired"
    /\ UNCHANGED <<period, shutdownCh, loop>>
    /\ UNCHANGED <<chainVars, curForkchoiceState, lastBlockTime, queueVars, callVars,
                   sealedTimes, commitHash, finVars>>
    /\ NoApi

\* loop, lines 280-281: the select takes the timer's case.
LoopFire ==
    /\ Alive
    /\ pc = "idle"
    /\ loop = "select"
    /\ timer = "fired"
    /\ timer' = "stopped"
    /\ loop' = "sealing"
    /\ DoPop(PopBatch)
    /\ \E skew \in ClockSkews : BeginSeal("loop", lastBlockTime + skew)
    /\ UNCHANGED <<period, shutdownCh>>
    /\ UNCHANGED <<chainVars, curForkchoiceState, lastBlockTime,
                   sealedTimes, finVars>>
    /\ NoApi

\* Lines 277-279 with shutdownCh received while sealBlock runs.
ObservesShutdownMidSeal(at) == at \in {"select", "sealing"}

\* loop, lines 277-279: shutdownCh is received at the select only
ObservesShutdown(at) == at = "select"

\* loop, lines 278-279: the select takes the shutdown case.
LoopExit ==
    /\ Alive
    /\ ObservesShutdown(loop)
    /\ shutdownCh
    /\ loop' = "exited"
    /\ UNCHANGED <<period, shutdownCh, timer>>
    /\ UNCHANGED <<chainVars, curForkchoiceState, lastBlockTime, queueVars, callVars,
                   sealedTimes, commitHash, finVars>>
    /\ NoApi

\* Lines 281-285 with timer.Reset after the if.
TimerAfterSealReset(res, t) == "armed"

\* loop, lines 281-285: timer.Reset when sealBlock returned nil
TimerAfterSeal(res, t) == IF Succeeded(res) THEN "armed" ELSE t

\* Line 321 with the cached head for the live one.
CommitReturnsCachedHead(err) == curForkchoiceState.head

\* Commit, line 321: the hash of the live head, whatever sealBlock returned
CommitReturns(err) == CurrentBlock.hash

\* sealBlock has returned to its caller: Commit reads the head (line 321),
\* AdjustTime returns the error (line 355), the loop rearms the timer when
\* there was none (lines 281-285).
Return ==
    /\ pc = "return"
    /\ commitHash' = IF caller = "Commit" THEN CommitReturns(result) ELSE commitHash
    /\ IF caller = "loop"
       THEN /\ loop' = "select"
            /\ timer' = TimerAfterSeal(result, timer)
       ELSE UNCHANGED <<loop, timer>>
    /\ pc' = "idle"
    /\ caller' = "none"
    /\ timestamp' = 0
    /\ header' = NoHeader
    /\ payload' = NoPayload
    /\ finalizedHash' = UnknownHash
    /\ result' = "none"
    /\ fcResponse' = NoResponse
    /\ calls' = <<>>
    /\ fcsAtCall' = curForkchoiceState
    /\ resyncWrites' = 0
    /\ commitWrites' = 0
    /\ raced' = FALSE
    /\ lastPop' = NoPop
    /\ UNCHANGED <<period, shutdownCh>>
    /\ UNCHANGED <<chainVars, curForkchoiceState, lastBlockTime, pending, addedAll,
                   poppedAll, sealedTimes, finVars>>
    /\ apiCall' = NoCall

----------------------------------------------------------------------------
\* Fork.

\* The hashes Fork is called with.
ForkTargets ==
    {n \in ForkNumbers : n <= base} \cup {NewHash(k) : k \in 1..Len(built)}
        \cup {UnknownHash}

\* Fork, lines 330-343.  The call is recorded when observed.
ForkCall(observed) ==
    /\ Alive
    /\ \E poolPending \in 0..MaxPoolPending :
          IF PoolDirty(poolPending)
          THEN /\ UNCHANGED <<canonical, raced>>
               /\ apiCall' = IF observed
                             THEN [op |-> "Fork", dirty |-> poolPending >= 1,
                                   err |-> "pending block dirty", adjustment |-> 0]
                             ELSE NoCall
          ELSE \E parentHash \in ForkTargets :
                  /\ IF ~HasBlock(parentHash)
                     THEN UNCHANGED <<canonical, raced>>
                     ELSE /\ canonical' = Ancestry(parentHash)
                          /\ raced' = (raced \/ pc \in {"resync", "getPayload",
                                                        "finality"})
                  /\ apiCall' = IF observed
                                THEN [op |-> "Fork", dirty |-> poolPending >= 1,
                                      err |-> IF HasBlock(parentHash) THEN "nil"
                                              ELSE "parent not found",
                                      adjustment |-> 0]
                                ELSE NoCall
    /\ UNCHANGED <<base, built>>
    /\ UNCHANGED <<pc, caller, timestamp, header, payload, finalizedHash, result,
                   fcResponse, calls, fcsAtCall, resyncWrites, commitWrites>>
    /\ UNCHANGED <<curForkchoiceState, lastBlockTime, queueVars, loopVars,
                   sealedTimes, commitHash, finVars>>

Fork == ForkCall(FALSE)

ForkObserved == ForkCall(TRUE)

----------------------------------------------------------------------------
\* The beacon with period 0: blocks are sealed by Commit and AdjustTime.

Init == NewSimulatedBeacon(0) /\ FinIdle

Next ==
    \/ Start
    \/ Commit
    \/ AdjustTime
    \/ ReadHead
    \/ Resync
    \/ ProposeNoBuild
    \/ ProposeBuild
    \/ GetPayload
    \/ Finality
    \/ NewPayload
    \/ Canonicalize
    \/ Return
    \/ Fork

Spec == Init /\ [][Next]_vars

----------------------------------------------------------------------------
\* The beacon with a period on a chain of height 44: blocks are sealed by
\* the loop.

InitLoop == NewSimulatedBeacon(1) /\ FinIdle /\ base = 44

NextLoop ==
    \/ Start
    \/ Stop
    \/ Alive /\ Add
    \/ TimerExpire
    \/ LoopFire
    \/ LoopExit
    \/ ReadHead
    \/ Resync
    \/ ProposeNoBuild
    \/ ProposeBuild
    \/ GetPayload
    \/ Finality
    \/ NewPayload
    \/ Canonicalize
    \/ Return
    \/ Fork

SpecLoop == InitLoop /\ [][NextLoop]_vars

----------------------------------------------------------------------------
\* The beacon with period 0 on a chain of height 44, driven by Fork and
\* AdjustTime, whose calls are recorded.

InitApi == NewSimulatedBeacon(0) /\ FinIdle /\ base = 44

NextApi ==
    \/ Start
    \/ AdjustTimeObserved
    \/ ReadHead
    \/ Resync
    \/ ProposeNoBuild
    \/ ProposeBuild
    \/ GetPayload
    \/ Finality
    \/ NewPayload
    \/ Canonicalize
    \/ Return
    \/ ForkObserved

SpecApi == InitApi /\ [][NextApi]_vars

----------------------------------------------------------------------------
\* The same beacon, with AdjustTime moving the clock back by a second or
\* ahead by two.

InitAdjust == NewSimulatedBeacon(0) /\ FinIdle /\ base = 44

NextAdjust ==
    \/ Start
    \/ AdjustTimeAhead
    \/ ReadHead
    \/ Resync
    \/ ProposeNoBuild
    \/ ProposeBuild
    \/ GetPayload
    \/ Finality
    \/ NewPayload
    \/ Canonicalize
    \/ Return
    \/ ForkObserved

SpecAdjust == InitAdjust /\ [][NextAdjust]_vars

----------------------------------------------------------------------------
\* The withdrawal queue on its own: add and pop in any order.

InitQueue == NewSimulatedBeacon(0) /\ FinIdle

NextQueue ==
    \/ Add
    \/ Pop

SpecQueue == InitQueue /\ [][NextQueue]_vars

----------------------------------------------------------------------------
\* The finalized-block rule on its own: applied to a number, then to its
\* own result.

InitFin ==
    /\ NewSimulatedBeacon(0)
    /\ finK \in 0..MaxNumber
    /\ finStage = 0
    /\ finOut = 0
    /\ finTwice = 0

FinalizeOnce ==
    /\ finStage = 0
    /\ finOut' = FinalizedNumber(finK)
    /\ finStage' = 1
    /\ UNCHANGED <<finK, finTwice>>
    /\ UNCHANGED <<chainVars, curForkchoiceState, lastBlockTime, queueVars, loopVars,
                   callVars, sealedTimes, commitHash, apiCall>>

FinalizeAgain ==
    /\ finStage = 1
    /\ finTwice' = FinalizedNumber(finOut)
    /\ finStage' = 2
    /\ UNCHANGED <<finK, finOut>>
    /\ UNCHANGED <<chainVars, curForkchoiceState, lastBlockTime, queueVars, loopVars,
                   callVars, sealedTimes, commitHash, apiCall>>

NextFin ==
    \/ FinalizeOnce
    \/ FinalizeAgain

SpecFin == InitFin /\ [][NextFin]_vars

----------------------------------------------------------------------------
\* Properties of the beacon with period 0 (Spec).

\* C1, as the specification states it: a sealBlock call that returns an
\* error leaves the ForkchoiceState as it was when the call began.
FailureLeavesForkchoiceState ==
    (pc = "return" /\ Failed(result)) => curForkchoiceState = fcsAtCall

\* C2, as the specification states it: a call that returns success has
\* changed the ForkchoiceState exactly once, any other call not at all.
OneUpdatePerSuccess ==
    pc = "return" =>
       IF Succeeded(result) THEN resyncWrites + commitWrites = 1
       ELSE resyncWrites + commitWrites = 0

\* C2, amended: the ForkchoiceState changes only inside sealBlock, at most
\* twice in a call: once at the resync guard, when the cached head is not
\* the live head, and once at line 263, to the imported block.  A call that
\* returns nil after building a block has made the change of line 263; a
\* call that returns nil without a payload has not, and without a resync it
\* leaves the ForkchoiceState as it was.
ForkchoiceStateWrites ==
    [][/\ curForkchoiceState' # curForkchoiceState =>
             \/ /\ pc = "resync"
                /\ curForkchoiceState'.head # curForkchoiceState.head
                /\ resyncWrites = 0 /\ resyncWrites' = 1
                /\ commitWrites' = commitWrites
             \/ /\ pc = "newPayload"
                /\ curForkchoiceState'.head = payload.hash
                /\ commitWrites = 0 /\ commitWrites' = 1
                /\ resyncWrites' = resyncWrites
       /\ resyncWrites' > resyncWrites \/ commitWrites' > commitWrites =>
             curForkchoiceState' # curForkchoiceState
       /\ pc' = "return" /\ result' = "nil" =>
             commitWrites' = 1 /\ curForkchoiceState'.head = payload'.hash
       /\ pc' = "return" /\ result' = "nil, payload already known" =>
             /\ commitWrites' = 0
             /\ resyncWrites' = 0 => curForkchoiceState' = fcsAtCall'
      ]_vars

\* A call that resynced, built a block and returned nil.
TwoWritesInOneCall ==
    pc = "return" /\ result = "nil" /\ resyncWrites = 1 /\ commitWrites = 1

\* C3: the timestamps of the blocks sealBlock calls have produced, in the
\* order of the calls, are strictly increasing; lastBlockTime is the last of
\* them, and the timestamp of a call under way is beyond it.
TimestampsStrictlyIncrease ==
    /\ \A i, j \in 1..Len(sealedTimes) : i < j => sealedTimes[i] < sealedTimes[j]
    /\ sealedTimes # <<>> => lastBlockTime = sealedTimes[Len(sealedTimes)]
    /\ pc \in {"readHead", "resync", "propose", "getPayload", "finality", "newPayload"}
          => timestamp > lastBlockTime

\* Two blocks produced, the second one on a block Fork rewound the chain to.
TwoSealsAcrossRewind ==
    /\ Len(sealedTimes) = 2
    /\ Len(built) = 2
    /\ built[2].parent \in ForkNumbers

\* C4: when the cached head is not the live head that sealBlock reads at
\* its start, the ForkchoiceState the proposing forkchoice update carries
\* has the live head as head and safe hash, not the cached head, and as
\* finalized hash a block of the live head's finalized-ancestor number,
\* which is its ancestor when no rewind ran between the two reads.
ResyncBeforePropose ==
    (pc = "propose" /\ fcsAtCall.head # header.hash) =>
       /\ resyncWrites = 1
       /\ curForkchoiceState.head = header.hash
       /\ curForkchoiceState.safe = header.hash
       /\ curForkchoiceState.head # fcsAtCall.head
       /\ BlockNumber(curForkchoiceState.finalized) = FinalizedNumber(header.number)
       /\ ~raced => curForkchoiceState.finalized =
                       Ancestry(header.hash)[FinalizedNumber(header.number) + 1]

\* A call about to propose on a live head that is behind the cached one.
ProposingAfterRewind ==
    /\ pc = "propose"
    /\ fcsAtCall.head # header.hash
    /\ header.number < BlockNumber(fcsAtCall.head)

\* C5, as the specification states it: a finality lookup that finds no block
\* never ends in a crash, and no hash but a block's is finalized.
NilFinalityIsAnError ==
    /\ result # "panic"
    /\ pc = "newPayload" => HasBlock(finalizedHash) \/ finalizedHash = payload.hash

\* C11: when the proposing forkchoice update answers VALID without a
\* payload ID, sealBlock returns nil and has called nothing after that
\* update: no getPayload, no newPayload, no second forkchoiceUpdated.
NoOpSuccessCallsNothingMore ==
    fcResponse = ValidWithoutID =>
       /\ pc = "return"
       /\ result = "nil, payload already known"
       /\ Succeeded(result)
       /\ calls = <<Called("TxPool.Sync", "nil"),
                    Called("forkchoiceUpdated with attributes", "nil")>>
       /\ payload = NoPayload
       /\ commitWrites = 0

\* A Commit whose proposal was answered VALID without a payload ID.
NoOpSuccessReturned ==
    /\ pc = "return"
    /\ caller = "Commit"
    /\ fcResponse = ValidWithoutID
    /\ result = "nil, payload already known"

\* C12: when the proposing forkchoice update answers SYNCING, sealBlock
\* returns the error of line 208 and has called nothing after that update.
SyncingAborts ==
    fcResponse = STATUS_SYNCING =>
       /\ pc = "return"
       /\ result = "chain rewind prevented invocation of payload creation"
       /\ Failed(result)
       /\ calls = <<Called("TxPool.Sync", "nil"),
                    Called("forkchoiceUpdated with attributes", "nil")>>
       /\ payload = NoPayload
       /\ commitWrites = 0

\* A call whose proposal was answered SYNCING has returned.
SyncingReturned ==
    /\ pc = "return"
    /\ fcResponse = STATUS_SYNCING
    /\ Len(calls) = 2

\* The calls of a sealBlock call that produces a block, in their order.
SealingCalls ==
    <<"TxPool.Sync", "forkchoiceUpdated with attributes", "getPayload",
      "newPayload", "forkchoiceUpdated">>

\* C18: the calls a sealBlock call has made are a prefix of pool sync,
\* forkchoiceUpdated with attributes, getPayload, newPayload,
\* forkchoiceUpdated, each once; every call but the last returned no error;
\* and a call that returns nil with a new block has made all five.
EngineCallOrder ==
    /\ Len(calls) <= Len(SealingCalls)
    /\ \A i \in 1..Len(calls) :
          /\ calls[i].call = SealingCalls[i]
          /\ i < Len(calls) => calls[i].err = "nil"
    /\ Len(calls) >= 3 => fcResponse = ValidWithID
    /\ (pc = "return" /\ result = "nil") =>
          /\ Len(calls) = Len(SealingCalls)
          /\ \A i \in 1..Len(calls) : calls[i].err = "nil"

\* A call that made all five calls has returned nil.
AllFiveCallsMade ==
    /\ pc = "return"
    /\ result = "nil"
    /\ Len(calls) = Len(SealingCalls)

\* C17: a Commit whose sealBlock call has returned, with nil or with an
\* error, returns the hash of the block that is the live head at that
\* moment: a hash of a block of the chain, never the error.
CommitReturnsLiveHead ==
    [][(pc = "return" /\ caller = "Commit" /\ pc' = "idle") =>
          /\ Succeeded(result) \/ Failed(result)
          /\ commitHash' = CurrentBlock.hash
          /\ HasBlock(commitHash')
          /\ commitHash' = canonical'[Len(canonical')]
      ]_vars

\* A Commit has returned the hash of block 44 after its sealBlock call built
\* block 45 and failed to make it canonical: the cached head is block 45.
CommitReturnedAfterFailure ==
    /\ pc = "idle"
    /\ base = 44
    /\ commitHash = 44
    /\ Len(built) = 1
    /\ curForkchoiceState.head = NewHash(1)

\* C19, as the specification states it: when a sealBlock call has set the
\* ForkchoiceState to the block it built, newPayload and the forkchoice
\* update that makes the block canonical have both returned nil, and the
\* block is the canonical head unless Fork rewound the chain since.
ChangedOnlyWhenCanonical ==
    commitWrites > 0 =>
       /\ Len(calls) = 5
       /\ calls[4] = Called("newPayload", "nil")
       /\ calls[5] = Called("forkchoiceUpdated", "nil")
       /\ ~raced => CurrentBlock.hash = curForkchoiceState.head

\* C8: the safe hash of the ForkchoiceState is its head hash.
SafeIsHead == curForkchoiceState.safe = curForkchoiceState.head

\* The ForkchoiceState of line 263 with a finalized block that is not the head.
CommittedBehindFinality ==
    /\ pc = "canonicalize"
    /\ curForkchoiceState.head = payload.hash
    /\ curForkchoiceState.finalized # curForkchoiceState.head

\* C10: after a call that built a block of number n and made it canonical,
\* head and safe hash are the block's, and the finalized hash is the block's
\* own when n is a multiple of 32, else that of a block of number
\* 32 * (n \div 32), which is the block's ancestor when no rewind ran while
\* it was built.
SealedForkchoiceState ==
    (pc = "return" /\ result = "nil") =>
       LET n == payload.number
           f == devEpochLength * (n \div devEpochLength)
       IN /\ curForkchoiceState.head = payload.hash
          /\ curForkchoiceState.safe = payload.hash
          /\ n % devEpochLength = 0 => curForkchoiceState.finalized = payload.hash
          /\ n % devEpochLength # 0 =>
                /\ HasBlock(curForkchoiceState.finalized)
                /\ BlockNumber(curForkchoiceState.finalized) = f
                /\ ~raced => curForkchoiceState.finalized =
                                Ancestry(payload.hash)[f + 1]

\* Block 45 sealed: block 32 is finalized.
Sealed45Finalizes32 ==
    /\ pc = "return"
    /\ result = "nil"
    /\ payload.number = 45
    /\ curForkchoiceState = [head |-> payload.hash, safe |-> payload.hash,
                             finalized |-> 32]

----------------------------------------------------------------------------
\* Properties of the loop (SpecLoop).

\* C15: when a sealBlock call of the loop returns nil the timer is armed
\* again, and when it returns an error the timer stays stopped; a loop
\* waiting on a stopped timer starts no sealBlock call, its timer stays
\* stopped, and it leaves the wait only by taking the shutdown case.
TimerRearmedOnlyOnSuccess ==
    [][/\ (pc = "return" /\ caller = "loop" /\ pc' = "idle") =>
             /\ loop = "sealing" /\ loop' = "select"
             /\ result \in {"nil", "nil, payload already known"} => timer' = "armed"
             /\ result \notin {"nil", "nil, payload already known"} =>
                   timer' = "stopped"
       /\ (loop = "select" /\ timer = "stopped") =>
             /\ timer' = "stopped"
             /\ pc' = "idle"
             /\ sealedTimes' = sealedTimes
             /\ loop' = "select" \/ (loop' = "exited" /\ shutdownCh)
      ]_vars

\* The loop has sealed one block, its second sealBlock call returned an
\* error, and it waits on a stopped timer with no shutdown signalled.
StalledAfterFailure ==
    /\ loop = "select"
    /\ timer = "stopped"
    /\ pc = "idle"
    /\ Len(sealedTimes) = 1
    /\ ~shutdownCh

\* C16, as the specification states it: a loop that waits with shutdownCh
\* closed and the timer's fire pending takes the shutdown case, never the
\* timer's.
ShutdownWinsRace ==
    [][(loop = "select" /\ shutdownCh /\ timer = "fired") => loop' # "sealing"]_vars

\* C20: the loop exits only from its wait, with shutdownCh closed and no
\* sealBlock call under way; while a call of the loop is under way the loop
\* does not exit, whether or not Stop has closed shutdownCh, and it is back
\* at the wait only when the call has returned.
ShutdownOnlyBetweenSeals ==
    [][/\ (loop' = "exited" /\ loop # "exited") =>
             loop = "select" /\ shutdownCh /\ pc = "idle"
       /\ loop = "sealing" =>
             /\ caller = "loop"
             /\ loop' \in {"sealing", "select"}
             /\ loop' = "select" => pc = "return" /\ pc' = "idle"
       /\ loop' = "sealing" => pc' # "idle"
      ]_vars

\* Stop has closed shutdownCh and a sealBlock call of the loop has built a
\* block and returned nil; the loop has not left it.
SealCompletedUnderShutdown ==
    /\ shutdownCh
    /\ loop = "sealing"
    /\ pc = "return"
    /\ result = "nil"
    /\ Len(built) = 1

----------------------------------------------------------------------------
\* Properties of Fork and AdjustTime (SpecApi, SpecAdjust).

\* C13: a Fork or AdjustTime call made while the pool holds a pending
\* transaction returns its pool error and leaves the chain, the
\* ForkchoiceState, lastBlockTime and the withdrawal queue as they were and
\* starts no sealBlock call; a call that changes any of them, returns nil
\* or goes on to sealBlock found the pool empty.
PoolGuardsForkAndAdjustTime ==
    [][apiCall' # NoCall =>
          /\ apiCall'.dirty =>
                /\ apiCall'.err = IF apiCall'.op = "Fork"
                                  THEN "pending block dirty"
                                  ELSE "could not adjust time on non-empty block"
                /\ UNCHANGED <<chainVars, curForkchoiceState, lastBlockTime,
                               pending, poppedAll, lastPop, pc, timestamp>>
          /\ \/ chainVars' # chainVars
             \/ curForkchoiceState' # curForkchoiceState
             \/ lastBlockTime' # lastBlockTime
             \/ <<pending, poppedAll, lastPop>>' # <<pending, poppedAll, lastPop>>
             \/ pc' # pc
             \/ apiCall'.err \in {"nil", "sealBlock's"}
             => ~apiCall'.dirty
          /\ (apiCall'.op = "AdjustTime" /\ ~apiCall'.dirty) =>
                pc' = "readHead" /\ caller' = "AdjustTime"
      ]_vars

\* Fork refused on a pool with a pending transaction, after a block was built.
ForkRefusedOnDirtyPool ==
    /\ apiCall = [op |-> "Fork", dirty |-> TRUE, err |-> "pending block dirty",
                  adjustment |-> 0]
    /\ Len(built) = 1
    /\ pc = "idle"

\* C14, as the specification states it: the timestamp AdjustTime seals with
\* is the head's time plus the adjustment.
AdjustTimeSealsAtHeadPlusDelta ==
    (apiCall.op = "AdjustTime" /\ ~apiCall.dirty) =>
       timestamp = CurrentBlock.time + apiCall.adjustment

\* C14, amended: the timestamp AdjustTime seals with is the head's time plus
\* the adjustment when that is past lastBlockTime, and lastBlockTime + 1
\* otherwise; the block the call builds carries that timestamp, and when the
\* call returns nil lastBlockTime is that timestamp.
AdjustTimeSealsNormalized ==
    /\ (apiCall.op = "AdjustTime" /\ ~apiCall.dirty) =>
          LET asked == CurrentBlock.time + apiCall.adjustment
          IN /\ pc = "readHead"
             /\ caller = "AdjustTime"
             /\ timestamp = IF asked > lastBlockTime THEN asked
                            ELSE lastBlockTime + 1
    /\ (caller = "AdjustTime" /\ pc \in {"finality", "newPayload", "canonicalize"})
          => payload.time = timestamp
    /\ (caller = "AdjustTime" /\ pc = "return" /\ result = "nil") =>
          /\ BlockTime(payload.hash) = payload.time
          /\ lastBlockTime = payload.time

\* AdjustTime by 2 seconds on a head Fork rewound the chain to, whose time
\* is more than 2 seconds behind lastBlockTime.
AdjustTimeAfterRewind ==
    /\ apiCall.op = "AdjustTime"
    /\ ~apiCall.dirty
    /\ apiCall.adjustment = 2
    /\ CurrentBlock.number \in ForkNumbers
    /\ CurrentBlock.time + 2 < lastBlockTime
    /\ timestamp = lastBlockTime + 1

----------------------------------------------------------------------------
\* Properties of the withdrawal queue (SpecQueue).

\* C6: pop(n) returns the first min(n, length) withdrawals of the queue in
\* their order, no more than n and no more than are queued, and leaves the
\* queue without them.
PopReturnsPrefix ==
    lastPop.n >= 0 =>
       LET k == IF lastPop.n < Len(lastPop.before) THEN lastPop.n
                ELSE Len(lastPop.before)
       IN /\ Len(lastPop.out) = k
          /\ Len(lastPop.out) <= lastPop.n
          /\ Len(lastPop.out) <= Len(lastPop.before)
          /\ \A i \in 1..k : lastPop.out[i] = lastPop.before[i]
          /\ lastPop.before = lastPop.out \o lastPop.rest

\* pop(10) on [w1, w2, w3] returned all three and left the queue empty.
PopTenOfThree ==
    /\ lastPop = [n |-> PopBatch, before |-> <<1, 2, 3>>, out |-> <<1, 2, 3>>,
                  rest |-> <<>>]
    /\ pending = <<>>

\* C7: the popped batches in pop order, followed by the queue, are the
\* withdrawals added, in the order they were added; none occurs twice.
NothingLostOrDuplicated ==
    /\ poppedAll \o pending = addedAll
    /\ \A i, j \in 1..Len(poppedAll) : i # j => poppedAll[i] # poppedAll[j]

\* Two pops have returned a batch each and a withdrawal is still queued.
TwoBatchesAndARest ==
    /\ addedAll = <<1, 2, 3>>
    /\ poppedAll = <<1, 2>>
    /\ pending = <<3>>
    /\ lastPop.n = 1
    /\ lastPop.out = <<2>>

----------------------------------------------------------------------------
\* Properties of the finalized-block rule (SpecFin).

\* C9: the finalized-ancestor number of k is the greatest multiple of 32
\* that is at most k, which is k when k is a multiple; the rule applied to
\* its own result returns it.
FinalizedAncestorNumber ==
    /\ finStage >= 1 =>
          /\ finOut <= finK
          /\ finOut % devEpochLength = 0
          /\ \A m \in 0..finK : m % devEpochLength = 0 => m <= finOut
          /\ finK % devEpochLength = 0 => finOut = finK
    /\ finStage = 2 => finTwice = finOut

\* The rule applied to 45 and to its result.
FinalizedAncestorOf45 ==
    finStage = 2 /\ finK = 45 /\ finOut = 32 /\ finTwice = 32

====
